---- MODULE Spec2Model ----
(***************************************************************************)
(* Model of the completion trie of src/src/lib.rs: CompletionTree (an      *)
(* optional root Node), Node::put_key, Node::descendent and the lazy       *)
(* best-first CompletionIter driven by a std BinaryHeap of Scored markers. *)
(*                                                                         *)
(* An Option<X> is a sequence of length 0 (None) or 1 (Some).  A reference *)
(* &Node is the byte path of the node from the root, a reference &T to a   *)
(* stored item is the path of its node and its index in node.items.        *)
(* Scores are only compared and copied, never added, so the width of i32   *)
(* plays no part.                                                          *)
(*                                                                         *)
(* tree      the CompletionTree                                            *)
(* iters     the iterators the caller holds, one Option per slot           *)
(* inserted  history: the bag of (item, key) pairs of the put calls so far *)
(* nputs     history: the number of put calls so far                       *)
(***************************************************************************)
EXTENDS Integers, Sequences, FiniteSets, Bags, TLC

VARIABLES tree, iters, inserted, nputs

vars == <<tree, iters, inserted, nputs>>

\* Spec holds one iterator at a time: at most MaxPuts put calls, of items
\* whose strings have at most MaxKeyLen bytes.  SpecShared holds two iterators
\* over one tree: MaxPutsShared put calls, strings of MaxKeyLenShared bytes.
MaxPuts == 2
MaxKeyLen == 2
MaxPutsShared == 2
MaxKeyLenShared == 1

Space == 32
LetterA == 97
Bytes == {Space, LetterA}
Scores == {-1, 1}

StringsUpTo(len) == UNION {[1..n -> Bytes] : n \in 0..len}
Strings == StringsUpTo(MaxKeyLen)
StringsShared == StringsUpTo(MaxKeyLenShared)

(* ---------------------------------------------------------------------- *)
(* Items and their keys                                                    *)
(* ---------------------------------------------------------------------- *)

\* struct Key { bytes, score }
Key(bytes, score) == [bytes |-> bytes, score |-> score]

\* index of the first Space in s at or after position i, 0 when there is none
RECURSIVE FindSpace(_, _)
FindSpace(s, i) ==
    IF i > Len(s) THEN 0
    ELSE IF s[i] = Space THEN i
    ELSE FindSpace(s, i + 1)

\* impl Completable for (&str, i32): the string and each of its suffixes that
\* follows a space, all with the item's score
RECURSIVE TokenKeys(_, _)
TokenKeys(s, score) ==
    LET idx == FindSpace(s, 1)
    IN  IF idx = 0 THEN <<Key(s, score)>>
        ELSE <<Key(s, score)>> \o TokenKeys(SubSeq(s, idx + 1, Len(s)), score)

\* The items put into the tree: the (&str, i32) items of the tests, and one
\* item of a Completable type whose keys() is empty.
TokenItems(strs) == [kind : {"tokens"}, str : strs, score : Scores]
NoKeyItem == [kind |-> "nokeys", str |-> <<>>, score |-> 1]
Items == TokenItems(Strings) \cup {NoKeyItem}
ItemsShared == TokenItems(StringsShared)

\* Completable::keys
Keys(item) ==
    IF item.kind = "nokeys" THEN <<>> ELSE TokenKeys(item.str, item.score)

(* ---------------------------------------------------------------------- *)
(* Node and CompletionTree                                                 *)
(* ---------------------------------------------------------------------- *)

Max(a, b) == IF a >= b THEN a ELSE b

\* Node::new that starts the bound at zero instead of the first key's score
NewNodeZero(max_score) ==
    [items |-> <<>>, children |-> <<>>, max_score |-> 0]

\* Node::new
NewNode(max_score) ==
    [items |-> <<>>, children |-> <<>>, max_score |-> max_score]

\* put_key that skips the push when the node already holds an equal pair
RECURSIVE put_keyDedup(_, _, _, _)
put_keyDedup(node, bytes, score, item) ==
    IF bytes = <<>>
    THEN [node EXCEPT !.max_score = Max(score, @),
                      !.items = IF \E k \in 1..Len(@) : @[k] = [item |-> item, score |-> score]
                                THEN @
                                ELSE Append(@, [item |-> item, score |-> score])]
    ELSE LET b == Head(bytes)
             child == IF b \in DOMAIN node.children
                      THEN node.children[b] ELSE NewNode(score)
         IN  [node EXCEPT !.max_score = Max(score, @),
                          !.children = (b :> put_keyDedup(child, Tail(bytes), score, item)) @@ @]

\* put_key that raises max_score at the terminal node only, not along the walk
RECURSIVE put_keyNoBound(_, _, _, _)
put_keyNoBound(node, bytes, score, item) ==
    IF bytes = <<>>
    THEN [node EXCEPT !.max_score = Max(score, @),
                      !.items = Append(@, [item |-> item, score |-> score])]
    ELSE LET b == Head(bytes)
             child == IF b \in DOMAIN node.children
                      THEN node.children[b] ELSE NewNode(score)
         IN  [node EXCEPT !.children = (b :> put_keyNoBound(child, Tail(bytes), score, item)) @@ @]

\* Node::put_key: the walk over key.bytes, one byte per recursion
RECURSIVE put_key(_, _, _, _)
put_key(node, bytes, score, item) ==
    IF bytes = <<>>
    THEN [node EXCEPT !.max_score = Max(score, @),
                      !.items = Append(@, [item |-> item, score |-> score])]
    ELSE LET b == Head(bytes)
             child == IF b \in DOMAIN node.children
                      THEN node.children[b] ELSE NewNode(score)
         IN  [node EXCEPT !.max_score = Max(score, @),
                          !.children = (b :> put_key(child, Tail(bytes), score, item)) @@ @]

\* self.0.get_or_insert_with(|| Node::new(key.score))
get_or_insert_with(t, score) == IF t = <<>> THEN NewNode(score) ELSE t[1]

\* put that creates the root before it looks at the item's keys
RECURSIVE putEager(_, _, _)
putEager(t, item, i) ==
    LET rooted == IF t = <<>> THEN <<NewNode(item.score)>> ELSE t
    IN  IF i > Len(Keys(item)) THEN rooted
        ELSE LET key == Keys(item)[i]
             IN  putEager(<<put_key(rooted[1], key.bytes, key.score, item)>>, item, i + 1)

\* CompletionTree::put: the loop over item.keys(), from key number i
RECURSIVE put(_, _, _)
put(t, item, i) ==
    IF i > Len(Keys(item)) THEN t
    ELSE LET key == Keys(item)[i]
         IN  put(<<put_key(get_or_insert_with(t, key.score), key.bytes, key.score, item)>>,
                 item, i + 1)

\* descendent that steps over a byte without an edge instead of giving up
RECURSIVE NodeDescendentSkip(_, _)
NodeDescendentSkip(node, path) ==
    IF path = <<>> THEN <<node>>
    ELSE IF Head(path) \in DOMAIN node.children
         THEN NodeDescendentSkip(node.children[Head(path)], Tail(path))
         ELSE NodeDescendentSkip(node, Tail(path))

\* Node::descendent: Some(node) or None
RECURSIVE NodeDescendent(_, _)
NodeDescendent(node, path) ==
    IF path = <<>> THEN <<node>>
    ELSE IF Head(path) \in DOMAIN node.children
         THEN NodeDescendent(node.children[Head(path)], Tail(path))
         ELSE <<>>

\* CompletionTree::descendent
descendent(t, prefix) == IF t = <<>> THEN <<>> ELSE NodeDescendent(t[1], prefix)

\* the node a reference &Node (a path from the root) points to
NodeAt(t, path) == NodeDescendent(t[1], path)[1]

(* ---------------------------------------------------------------------- *)
(* std::collections::BinaryHeap<Scored<ExploreMarker>>                      *)
(* data is the heap's Vec; position p here is index p - 1 there, so the    *)
(* parent of p is p \div 2 and its children are 2p and 2p + 1.             *)
(* ---------------------------------------------------------------------- *)

\* Scored::cmp with the operands the wrong way round
ScoredGe(a, b) == a.score >= b.score

\* Scored::cmp / partial_cmp: a <= b compares the scores alone
ScoredLe(a, b) == a.score <= b.score

Swap(data, i, j) == [data EXCEPT ![i] = data[j], ![j] = data[i]]

\* BinaryHeap::sift_up(start, pos): the element moves up past every parent
\* it is strictly greater than
RECURSIVE sift_up(_, _, _)
sift_up(data, start, pos) ==
    IF pos > start
    THEN LET parent == pos \div 2
         IN  IF ScoredLe(data[pos], data[parent]) THEN data
             ELSE sift_up(Swap(data, pos, parent), start, parent)
    ELSE data

\* BinaryHeap::push
HeapPush(data, x) == sift_up(Append(data, x), 1, Len(data) + 1)

\* BinaryHeap::sift_down_to_bottom(pos): the element goes down to a leaf along
\* the greater children (the right one on a tie), then sifts back up
RECURSIVE sift_down_to_bottom(_, _, _)
sift_down_to_bottom(data, start, pos) ==
    LET end == Len(data)
        child == 2 * pos
    IN  IF child + 1 <= end
        THEN LET c == IF ScoredLe(data[child], data[child + 1]) THEN child + 1 ELSE child
             IN  sift_down_to_bottom(Swap(data, pos, c), start, c)
        ELSE IF child = end
             THEN sift_up(Swap(data, pos, child), start, child)
             ELSE sift_up(data, start, pos)

\* BinaryHeap::pop on a non-empty heap: the element returned
HeapPopItem(data) == data[1]

\* BinaryHeap::pop on a non-empty heap: the Vec left behind
HeapPopRest(data) ==
    LET last == data[Len(data)]
        rest == SubSeq(data, 1, Len(data) - 1)
    IN  IF rest = <<>> THEN rest
        ELSE sift_down_to_bottom([rest EXCEPT ![1] = last], 1, 1)

RECURSIVE PushAll(_, _)
PushAll(data, xs) ==
    IF xs = <<>> THEN data ELSE PushAll(HeapPush(data, Head(xs)), Tail(xs))

(* ---------------------------------------------------------------------- *)
(* CompletionIter                                                          *)
(* queue is the iterator's field.  prefix, yielded, popped, expanded and   *)
(* last record what the iterator was made from and what next() has done.   *)
(* ---------------------------------------------------------------------- *)

\* Scored { item: ExploreMarker::Item(&item.item), score: item.score }
ItemMarker(path, idx, score) ==
    [kind |-> "Item", path |-> path, idx |-> idx, score |-> score]

\* Scored { item: ExploreMarker::Node(node), score: node.max_score }
NodeMarker(path, score) ==
    [kind |-> "Node", path |-> path, idx |-> 0, score |-> score]

\* the keys of a BTreeMap in iteration order: ascending
RECURSIVE Ascending(_)
Ascending(S) ==
    IF S = {} THEN <<>>
    ELSE LET m == CHOOSE x \in S : \A y \in S : x <= y
         IN  <<m>> \o Ascending(S \ {m})

\* the item pushes of an expansion that start one item too late
ItemMarkersSkipFirst(node, path) ==
    [k \in 1..(Len(node.items) - 1) |->
        [kind |-> "Item", path |-> path, idx |-> k + 1, score |-> node.items[k + 1].score]]

\* the pushes of one node's expansion: `for item in &node.items`
ItemMarkers(node, path) ==
    [k \in 1..Len(node.items) |-> ItemMarker(path, k, node.items[k].score)]

\* the pushes of one node's expansion: `for child in node.children.values()`
ChildMarkers(node, path) ==
    LET bs == Ascending(DOMAIN node.children)
    IN  [k \in 1..Len(bs) |->
            NodeMarker(Append(path, bs[k]), node.children[bs[k]].max_score)]

\* ExploreMarker::Node(node) arm of next()
Expand(t, queue, path) ==
    LET node == NodeAt(t, path)
    IN  PushAll(PushAll(queue, ItemMarkers(node, path)), ChildMarkers(node, path))

\* CompletionIter::empty
IterEmpty(prefix) ==
    [queue |-> <<>>, prefix |-> prefix, yielded |-> <<>>, popped |-> <<>>,
     expanded |-> <<>>, last |-> "fresh"]

\* CompletionIter::from(node), node being the one at path prefix
IterFrom(t, prefix) ==
    [queue |-> HeapPush(<<>>, NodeMarker(prefix, NodeAt(t, prefix).max_score)),
     prefix |-> prefix, yielded |-> <<>>, popped |-> <<>>,
     expanded |-> <<>>, last |-> "fresh"]

\* search that falls back to the whole tree when the prefix is absent
searchFallback(t, prefix) ==
    IF t = <<>> THEN IterEmpty(prefix)
    ELSE IF descendent(t, prefix) = <<>>
         THEN [IterFrom(t, <<>>) EXCEPT !.prefix = prefix]
         ELSE IterFrom(t, prefix)

\* CompletionTree::search
search(t, prefix) ==
    IF descendent(t, prefix) = <<>> THEN IterEmpty(prefix) ELSE IterFrom(t, prefix)

\* what next() hands out for an item marker: the item referred to, with the
\* place and the score it is stored under
Yield(t, m) ==
    [item |-> NodeAt(t, m.path).items[m.idx].item, score |-> m.score,
     path |-> m.path, idx |-> m.idx]

\* next() that peeks at an item marker and leaves it in the queue
RECURSIVE nextPeek(_, _)
nextPeek(t, it) ==
    IF it.queue = <<>> THEN [it EXCEPT !.last = "none"]
    ELSE LET cur == HeapPopItem(it.queue)
             rest == HeapPopRest(it.queue)
         IN  IF cur.kind = "Item"
             THEN [it EXCEPT !.popped = Append(@, cur.score),
                             !.yielded = Append(@, Yield(t, cur)),
                             !.last = "some"]
             ELSE nextPeek(t, [it EXCEPT !.queue = Expand(t, rest, cur.path),
                                         !.popped = Append(@, cur.score),
                                         !.expanded = Append(@, cur.path)])

\* CompletionIter::next: `while let Some(cur) = self.queue.pop()`
RECURSIVE next(_, _)
next(t, it) ==
    IF it.queue = <<>> THEN [it EXCEPT !.last = "none"]
    ELSE LET cur == HeapPopItem(it.queue)
             rest == HeapPopRest(it.queue)
         IN  IF cur.kind = "Item"
             THEN [it EXCEPT !.queue = rest,
                             !.popped = Append(@, cur.score),
                             !.yielded = Append(@, Yield(t, cur)),
                             !.last = "some"]
             ELSE next(t, [it EXCEPT !.queue = Expand(t, rest, cur.path),
                                     !.popped = Append(@, cur.score),
                                     !.expanded = Append(@, cur.path)])

(* ---------------------------------------------------------------------- *)
(* State machine                                                           *)
(* ---------------------------------------------------------------------- *)

\* one (item, key) pair of a put call
Entry(item, key) == [item |-> item, bytes |-> key.bytes, score |-> key.score]

RECURSIVE EntriesBag(_, _)
EntriesBag(item, i) ==
    IF i > Len(Keys(item)) THEN EmptyBag
    ELSE SetToBag({Entry(item, Keys(item)[i])}) (+) EntriesBag(item, i + 1)

NoIterator == \A i \in DOMAIN iters : iters[i] = <<>>

\* CompletionTree::default, and no search made yet
Init ==
    /\ tree = <<>>
    /\ iters = << <<>> >>
    /\ inserted = EmptyBag
    /\ nputs = 0

InitShared ==
    /\ tree = <<>>
    /\ iters = << <<>>, <<>> >>
    /\ inserted = EmptyBag
    /\ nputs = 0

\* tree.put(item): &mut self, so no iterator borrows the tree
PutUpTo(item, bound) ==
    /\ nputs < bound
    /\ NoIterator
    /\ tree' = put(tree, item, 1)
    /\ inserted' = inserted (+) EntriesBag(item, 1)
    /\ nputs' = nputs + 1
    /\ UNCHANGED iters

Put(item) == PutUpTo(item, MaxPuts)

PutShared(item) == PutUpTo(item, MaxPutsShared)

\* let it = tree.search(prefix)
Search(i, prefix) ==
    /\ iters[i] = <<>>
    /\ iters' = [iters EXCEPT ![i] = <<search(tree, prefix)>>]
    /\ UNCHANGED <<tree, inserted, nputs>>

\* it.next() that lowers the root's cached bound to the score it just yielded
NextItemRelaxing(i) ==
    /\ iters[i] # <<>>
    /\ LET it == next(tree, iters[i][1])
       IN  /\ iters' = [iters EXCEPT ![i] = <<it>>]
           /\ tree' = IF it.last = "some"
                      THEN <<[tree[1] EXCEPT !.max_score = it.yielded[Len(it.yielded)].score]>>
                      ELSE tree
    /\ UNCHANGED <<inserted, nputs>>

\* it.next()
NextItem(i) ==
    /\ iters[i] # <<>>
    /\ iters' = [iters EXCEPT ![i] = <<next(tree, iters[i][1])>>]
    /\ UNCHANGED <<tree, inserted, nputs>>

\* the iterator goes out of scope
Drop(i) ==
    /\ iters[i] # <<>>
    /\ iters' = [iters EXCEPT ![i] = <<>>]
    /\ UNCHANGED <<tree, inserted, nputs>>

Next ==
    \/ \E item \in Items : Put(item)
    \/ \E i \in DOMAIN iters, prefix \in Strings : Search(i, prefix)
    \/ \E i \in DOMAIN iters : NextItem(i)
    \/ \E i \in DOMAIN iters : Drop(i)

\* the two iterator slots are interchangeable: the second is taken while the
\* first is in use
NextShared ==
    \/ \E item \in ItemsShared : PutShared(item)
    \/ \E i \in DOMAIN iters, prefix \in StringsShared :
          (i > 1 => iters[1] # <<>>) /\ Search(i, prefix)
    \/ \E i \in DOMAIN iters : NextItem(i)
    \/ \E i \in DOMAIN iters : Drop(i)

Spec == Init /\ [][Next]_vars

SpecShared == InitShared /\ [][NextShared]_vars

(* ---------------------------------------------------------------------- *)
(* Vocabulary of the properties                                            *)
(* ---------------------------------------------------------------------- *)

Live == {i \in DOMAIN iters : iters[i] # <<>>}

It(i) == iters[i][1]

IsPrefix(p, s) == Len(p) <= Len(s) /\ SubSeq(s, 1, Len(p)) = p

\* the inserted (item, key) pairs whose key bytes begin with prefix, as a bag
Matching(prefix) ==
    LET D == {e \in BagToSet(inserted) : IsPrefix(prefix, e.bytes)}
    IN  [e \in D |-> inserted[e]]

\* the (item, key) pairs an iterator has yielded, as a bag
RECURSIVE YieldedBag(_)
YieldedBag(ys) ==
    IF ys = <<>> THEN EmptyBag
    ELSE SetToBag({[item |-> Head(ys).item, bytes |-> Head(ys).path,
                    score |-> Head(ys).score]}) (+) YieldedBag(Tail(ys))

\* the score a yielded pair is stored under in the tree
StoredScore(y) == NodeAt(tree, y.path).items[y.idx].score

\* the byte paths of the nodes of the subtree of node, node being at path
RECURSIVE Paths(_, _)
Paths(node, path) ==
    {path} \cup UNION {Paths(node.children[b], Append(path, b)) : b \in DOMAIN node.children}

TreePaths == IF tree = <<>> THEN {} ELSE Paths(tree[1], <<>>)

(* ---------------------------------------------------------------------- *)
(* Claims                                                                  *)
(* ---------------------------------------------------------------------- *)

\* C1: the sequence an iterator yields is non-increasing in score, the score
\* of a yielded entry being the score its (item, score) pair is stored under.
C1_YieldedNonIncreasing ==
    \A i \in Live :
        LET ys == It(i).yielded
        IN  \A k \in 1..Len(ys) :
                /\ ys[k].score = StoredScore(ys[k])
                /\ k > 1 => StoredScore(ys[k - 1]) >= StoredScore(ys[k])

\* an iterator that has yielded three results or more, a higher score before
\* a lower one, the lower one being the first pair of a node nearer the root
C1_Witness ==
    \E i \in Live :
        LET ys == It(i).yielded
        IN  /\ Len(ys) >= 3
            /\ ys[1].score > ys[Len(ys)].score
            /\ Len(ys[1].path) > Len(ys[Len(ys)].path)
            /\ ys[Len(ys)].idx = 1

\* C2: draining search(b"") yields exactly the bag of inserted (item, key)
\* pairs, once per key and per put call, nothing merged and nothing left out.
C2_EmptyPrefixYieldsAllInserted ==
    \A i \in Live :
        (It(i).prefix = <<>> /\ It(i).last = "none")
            => YieldedBag(It(i).yielded) = inserted

\* a drained search(b"") over a tree where one item was put twice and another
\* item contributed two keys
C2_Witness ==
    \E i \in Live :
        /\ It(i).prefix = <<>>
        /\ It(i).last = "none"
        /\ \E e \in BagToSet(inserted) : inserted[e] = 2
        /\ \E e, f \in BagToSet(inserted) : e.item = f.item /\ e.bytes # f.bytes
        /\ Len(It(i).yielded) >= 4

\* C3: draining search(prefix) yields exactly the bag of inserted (item, key)
\* pairs whose key bytes begin with prefix.
C3_YieldsExactlyMatching ==
    \A i \in Live :
        It(i).last = "none" => YieldedBag(It(i).yielded) = Matching(It(i).prefix)

\* a drained search of a non-empty prefix that yielded some of the inserted
\* pairs, one item twice, and left a non-matching pair out
C3_Witness ==
    \E i \in Live :
        /\ It(i).prefix # <<>>
        /\ It(i).last = "none"
        /\ \E j, k \in 1..Len(It(i).yielded) :
              /\ j # k
              /\ It(i).yielded[j].item = It(i).yielded[k].item
        /\ \E e \in BagToSet(inserted) : ~IsPrefix(It(i).prefix, e.bytes)

\* C4: an iterator for a prefix that no inserted key begins with has an empty
\* queue from the start, yields nothing, and its next() returns None; the
\* tree has no node at the prefix before or after.
C4_AbsentPrefixIsEmpty ==
    \A i \in Live :
        Matching(It(i).prefix) = EmptyBag
            => /\ It(i).queue = <<>>
               /\ It(i).yielded = <<>>
               /\ It(i).last # "some"
               /\ It(i).prefix \notin TreePaths

\* next() has returned None for a prefix absent from a tree that holds keys
C4_Witness ==
    \E i \in Live :
        /\ inserted # EmptyBag
        /\ Matching(It(i).prefix) = EmptyBag
        /\ It(i).last = "none"

\* the iterator that n calls of next() make of a fresh search(prefix) of t
RECURSIVE RunAlone(_, _, _)
RunAlone(t, prefix, n) ==
    IF n = 0 THEN search(t, prefix) ELSE next(t, RunAlone(t, prefix, n - 1))

\* the number of next() calls an iterator has answered, counting one None
Calls(it) == Len(it.yielded) + (IF it.last = "none" THEN 1 ELSE 0)

C5_RunsAlone ==
    \A i \in Live : It(i) = RunAlone(tree, It(i).prefix, Calls(It(i)))

C5_Frame == tree' # tree => (nputs' = nputs + 1 /\ iters' = iters)

\* C5: the tree changes in put steps only, never in a search, a next() or a
\* drop; and every iterator, however the pulls of the iterators interleave,
\* is in the state that the same number of next() calls gives a fresh search
\* of its prefix run alone on the tree.
C5_QueriesLeaveTreeUnchanged == [][C5_Frame]_vars /\ []C5_RunsAlone

\* two iterators of the same prefix over one tree, one of them drained and
\* the other abandoned after its first result
C5_Witness ==
    /\ Live = {1, 2}
    /\ It(1).prefix = It(2).prefix
    /\ It(1).last = "none"
    /\ Len(It(1).yielded) >= 3
    /\ Len(It(2).yielded) = 1

\* the nodes of the subtree of node
RECURSIVE SubtreeNodes(_)
SubtreeNodes(node) ==
    {node} \cup UNION {SubtreeNodes(node.children[b]) : b \in DOMAIN node.children}

\* the scores of the pairs stored at node or below it
SubtreeScores(node) ==
    UNION {{n.items[k].score : k \in 1..Len(n.items)} : n \in SubtreeNodes(node)}

IsMaximum(m, S) == m \in S /\ \A x \in S : x <= m

\* C6: every node's max_score is the maximum score among the pairs stored at
\* the node or in its subtree, hence at least each child's max_score and at
\* least the score of each pair stored at the node.
C6_MaxScoreIsSubtreeMaximum ==
    tree # <<>> =>
        \A n \in SubtreeNodes(tree[1]) :
            /\ IsMaximum(n.max_score, SubtreeScores(n))
            /\ \A b \in DOMAIN n.children : n.max_score >= n.children[b].max_score
            /\ \A k \in 1..Len(n.items) : n.max_score >= n.items[k].score

\* a tree with a node whose max_score is negative, under a root whose
\* max_score was raised after the root was created
C6_Witness ==
    /\ tree # <<>>
    /\ tree[1].max_score = 1
    /\ Len(tree[1].items) >= 1
    /\ tree[1].items[1].score = -1
    /\ \E b \in DOMAIN tree[1].children : tree[1].children[b].max_score = -1

\* C7: the priorities popped by one iterator are non-increasing; when next()
\* has just yielded an item of score s, every node expanded so far has
\* max_score >= s and every node marker in the queue has max_score <= s.
C7_PoppedNonIncreasing ==
    \A i \in Live :
        LET it == It(i)
        IN  /\ \A k \in 2..Len(it.popped) : it.popped[k - 1] >= it.popped[k]
            /\ it.last = "some" =>
                  LET s == it.yielded[Len(it.yielded)].score
                  IN  /\ \A k \in 1..Len(it.expanded) :
                            NodeAt(tree, it.expanded[k]).max_score >= s
                      /\ \A k \in 1..Len(it.queue) :
                            it.queue[k].kind = "Node"
                                => /\ it.queue[k].score <= s
                                   /\ NodeAt(tree, it.queue[k].path).max_score <= s

\* next() has yielded an item, after expanding two nodes or more, while a
\* node of a lower bound waits unexpanded in the queue
C7_Witness ==
    \E i \in Live :
        /\ It(i).last = "some"
        /\ Len(It(i).expanded) >= 2
        /\ \E k \in 1..Len(It(i).queue) :
              /\ It(i).queue[k].kind = "Node"
              /\ It(i).queue[k].score < It(i).yielded[Len(It(i).yielded)].score

Prefixes(s) == {SubSeq(s, 1, n) : n \in 0..Len(s)}

ProperPrefix(p, s) == IsPrefix(p, s) /\ Len(p) < Len(s)

\* the stored pair (path, idx) was yielded among the first n results of it
YieldedWithin(it, n, path, idx) ==
    \E k \in 1..n : it.yielded[k].path = path /\ it.yielded[k].idx = idx

\* the stored pair (path, idx) waits in the queue of it as an item marker
Pending(it, path, idx) ==
    \E k \in 1..Len(it.queue) :
        /\ it.queue[k].kind = "Item"
        /\ it.queue[k].path = path
        /\ it.queue[k].idx = idx

\* the paths p and indices k of the stored pairs that match the query of it,
\* lie at a proper ancestor of path and have the score given
ShallowerTies(it, path, score) ==
    LET above == {p \in Prefixes(path) : ProperPrefix(p, path) /\ IsPrefix(it.prefix, p)}
    IN  UNION {{<<p, k>> : k \in {n \in 1..Len(NodeAt(tree, p).items) :
                                    NodeAt(tree, p).items[n].score = score}} :
               p \in above}

\* C8 as stated: of two matching entries of equal score, one stored at an
\* ancestor node of the other, the shallower one is yielded first; so each
\* yielded entry comes after all its shallower ties.
C8_ShallowerTieYieldedFirst ==
    \A i \in Live :
        \A j \in 1..Len(It(i).yielded) :
            \A pk \in ShallowerTies(It(i), It(i).yielded[j].path, It(i).yielded[j].score) :
                YieldedWithin(It(i), j - 1, pk[1], pk[2])

\* C8 as amended: of two matching entries of equal score, one stored at an
\* ancestor node of the other, the shallower one is discovered first: when
\* next() yields the deeper entry, the shallower one has been yielded or is
\* waiting in the queue.
C8_ShallowerTieDiscoveredFirst ==
    \A i \in Live :
        It(i).last = "some" =>
            LET j == Len(It(i).yielded)
            IN  \A pk \in ShallowerTies(It(i), It(i).yielded[j].path, It(i).yielded[j].score) :
                    \/ YieldedWithin(It(i), j - 1, pk[1], pk[2])
                    \/ Pending(It(i), pk[1], pk[2])

\* next() has just yielded an entry while an entry of the same score stored at
\* an ancestor node is still waiting in the queue
C8_Witness ==
    \E i \in Live :
        /\ It(i).last = "some"
        /\ LET j == Len(It(i).yielded)
           IN  \E pk \in ShallowerTies(It(i), It(i).yielded[j].path, It(i).yielded[j].score) :
                   /\ Pending(It(i), pk[1], pk[2])
                   /\ ~YieldedWithin(It(i), j - 1, pk[1], pk[2])

\* the number of (item, score) pairs stored at node or below it
RECURSIVE SubtreeCount(_)
RECURSIVE ChildrenCount(_, _)
SubtreeCount(node) ==
    Len(node.items) + ChildrenCount(node, Ascending(DOMAIN node.children))
ChildrenCount(node, bs) ==
    IF bs = <<>> THEN 0
    ELSE SubtreeCount(node.children[Head(bs)]) + ChildrenCount(node, Tail(bs))

\* the number of pairs stored in the subtree search(prefix) matches
MatchedCount(prefix) ==
    IF descendent(tree, prefix) = <<>> THEN 0
    ELSE SubtreeCount(descendent(tree, prefix)[1])

C9_Bounded ==
    \A i \in Live :
        LET it == It(i)
        IN  /\ Len(it.yielded) <= MatchedCount(it.prefix)
            /\ \A j, k \in 1..Len(it.yielded) :
                  (it.yielded[j].path = it.yielded[k].path
                      /\ it.yielded[j].idx = it.yielded[k].idx) => j = k
            /\ \A j, k \in 1..Len(it.expanded) :
                  it.expanded[j] = it.expanded[k] => j = k
            /\ \A k \in 1..Len(it.expanded) : IsPrefix(it.prefix, it.expanded[k])
            /\ it.last = "none" => it.queue = <<>>

\* a step that changes a live iterator and is not its drop is a next() call
C9_Progress ==
    \A i \in DOMAIN iters :
        (iters[i] # <<>> /\ iters'[i] # <<>> /\ iters'[i] # iters[i]) =>
            /\ iters[i][1].last # "none"
            /\ \/ /\ iters'[i][1].last = "some"
                  /\ Len(iters'[i][1].yielded) = Len(iters[i][1].yielded) + 1
               \/ /\ iters'[i][1].last = "none"
                  /\ iters'[i][1].yielded = iters[i][1].yielded

\* C9: every next() call that does not return None yields one more pair, an
\* iterator yields each stored pair of the matched subtree at most once and
\* expands each of its nodes at most once, so that next() returns None after
\* at most as many results as the subtree stores pairs; once next() has
\* returned None the queue is empty and no later call changes the iterator.
C9_TerminatesWithinSubtree == []C9_Bounded /\ [][C9_Progress]_vars

\* next() has returned None after yielding all four pairs of a subtree of
\* three nodes
C9_Witness ==
    \E i \in Live :
        /\ It(i).last = "none"
        /\ Len(It(i).yielded) = 4
        /\ Len(It(i).expanded) = 3
        /\ MatchedCount(It(i).prefix) = 4

\* the pairs stored at the node of path, as a bag of (item, key) pairs
RECURSIVE StoredBag(_, _)
StoredBag(items, path) ==
    IF items = <<>> THEN EmptyBag
    ELSE SetToBag({[item |-> Head(items).item, bytes |-> path,
                    score |-> Head(items).score]}) (+) StoredBag(Tail(items), path)

\* the inserted (item, key) pairs whose key bytes are exactly path, as a bag
InsertedAt(path) ==
    LET D == {e \in BagToSet(inserted) : e.bytes = path}
    IN  [e \in D |-> inserted[e]]

\* C10: a node exists at byte path P exactly when some inserted key begins
\* with P; the tree has no root exactly when no key was ever inserted; and
\* the pairs stored at a node are the inserted pairs whose key is its path.
C10_NodesAreKeyPrefixes ==
    /\ (tree = <<>>) <=> (inserted = EmptyBag)
    /\ TreePaths = UNION {Prefixes(e.bytes) : e \in BagToSet(inserted)}
    /\ \A p \in TreePaths : StoredBag(NodeAt(tree, p).items, p) = InsertedAt(p)

\* after a put of an item without keys and a put of an item with the keys
\* "a " and "": a pair stored at the root, and a node two bytes deep
C10_Witness ==
    /\ nputs = 2
    /\ BagCardinality(inserted) = 2
    /\ tree # <<>>
    /\ Len(tree[1].items) = 1
    /\ \E p \in TreePaths : Len(p) = 2

====
